---- MODULE Spec2Model ----
(***************************************************************************)
(* tools/eslint-plugin-cdk/lib/rules/import-core-last.ts                   *)
(*                                                                         *)
(* The rule keeps `@aws-cdk/core.Construct` referenced without a qualifier *)
(* and keeps the `CoreConstruct` alias import on a line of its own.  The   *)
(* model follows the listener of lines 78-148 (Program, ImportDeclaration, *)
(* ClassDeclaration, Identifier) and the two fixers (lines 150-240) over   *)
(* a stream of node visits, one file at a time, in document order.  The    *)
(* listener of lines 17-53, which wants the CoreConstruct import last and  *)
(* alone, sees the same Program and ImportDeclaration events.              *)
(***************************************************************************)
EXTENDS Integers, Sequences, FiniteSets, TLC

VARIABLES
    importCache,            \* importCache.imports: every binding recorded in the run
    importOrderViolation,   \* the pending "CoreConstruct on its own line" violation
    fileName,               \* context.getFilename() of the file being traversed
    pass,                   \* 1: a file as written, 2: the same file with its fixes applied
    visited,                \* nodes of the current file visited so far (its text so far)
    todo,                   \* pass 2: nodes of the fixed file still to visit
    reports,                \* context.report calls of the current traversal
    nFiles,                 \* files begun so far
    nEvents,                \* events of files as written handed over so far
    coreConstructSeen,      \* line 15: a CoreConstruct import was seen in this file
    lastReports             \* context.report calls of the listener of lines 17-53

vars == <<importCache, importOrderViolation, fileName, pass, visited, todo,
          reports, nFiles, nEvents, coreConstructSeen, lastReports>>

-----------------------------------------------------------------------------
(* Bounds *)

\* begin-file and node events of files as written, over the whole run
MaxEvents == 4

-----------------------------------------------------------------------------
(* Names and text *)

CoreModule       == "@aws-cdk/core"
ConstructsModule == "constructs"

\* String.length of the pieces of text the traversed files are made of.
StrLen(s) ==
    CASE s = "Construct"      -> 9
      [] s = "CoreConstruct"  -> 13
      [] s = "Resource"       -> 8
      [] s = "Token"          -> 5
      [] s = "cdk"            -> 3
      [] s = "constructs"     -> 10
      [] s = "@aws-cdk/core"  -> 13
      [] s = "monocdk"        -> 7
      [] s = "x"              -> 1
      [] s = "import { "      -> 9
      [] s = "import "        -> 7
      [] s = "* as "          -> 5
      [] s = " as "           -> 4
      [] s = ", "             -> 2
      [] s = " } from '"      -> 9
      [] s = " from '"        -> 7
      [] s = "';"             -> 2
      [] s = "class X extends " -> 16
      [] s = " {}"            -> 3
      [] s = "."              -> 1
      [] s = ": "             -> 2
      [] s = ""               -> 0

-----------------------------------------------------------------------------
(* AST nodes handed to the listener *)

Named(imported, local) ==
    [type |-> "ImportSpecifier", imported |-> imported, local |-> local]
Namespace(local) ==
    [type |-> "ImportNamespaceSpecifier", imported |-> "", local |-> local]

SpecifierLists ==
    { <<Named("Construct", "Construct")>>,
      <<Named("Construct", "CoreConstruct")>>,
      <<Namespace("cdk")>>,
      <<Named("Resource", "Resource"), Named("Construct", "CoreConstruct")>>,
      <<Named("Construct", "CoreConstruct"), Named("Resource", "Resource")>>,
      <<Named("Resource", "Resource"), Named("Construct", "CoreConstruct"),
        Named("Token", "Token")>> }

ImportNode(source, specifiers) ==
    [type |-> "ImportDeclaration", source |-> source, specifiers |-> specifiers]

\* class X extends <object>.<property> {}   (superClass.type = MemberExpression)
\* class X extends <property> {}            (superClass.type = Identifier)
ClassNode(superType, object, property) ==
    [type |-> "ClassDeclaration", superType |-> superType,
     object |-> object, property |-> property]

\* <name>                    annotation = "none"
\* <name>: <left>.<right>    annotation = "TSQualifiedName"
\* <name>: <right>           annotation = "Identifier"
IdentifierNode(name, annotation, left, right) ==
    [type |-> "Identifier", name |-> name, annotation |-> annotation,
     left |-> left, right |-> right]

ImportNodes ==
    { ImportNode(CoreModule, s) : s \in SpecifierLists }
    \cup { ImportNode(ConstructsModule, << Named("Construct", "Construct") >>),
           ImportNode("monocdk", << Named("Construct", "Construct") >>),
           ImportNode("monocdk", << Named("CoreConstruct", "CoreConstruct"),
                                    Named("Resource", "Resource") >>) }

ClassNodes ==
    { ClassNode("MemberExpression", q, b) :
        q \in {"cdk", "constructs"}, b \in {"Construct", "CoreConstruct"} }
    \cup { ClassNode("Identifier", "", "Resource") }

IdentifierNodes ==
    { IdentifierNode("x", "TSQualifiedName", q, "Construct") : q \in {"cdk", "constructs"} }
    \cup { IdentifierNode("x", "TSQualifiedName", "cdk", "Resource"),
           IdentifierNode("x", "Identifier", "", "Construct"),
           IdentifierNode("CoreConstruct", "none", "", ""),
           IdentifierNode("CoreConstruct", "TSQualifiedName", "cdk", "Construct") }

Nodes == ImportNodes \cup ClassNodes \cup IdentifierNodes

-----------------------------------------------------------------------------
(* Text ranges: [start, end) offsets, as the parser attaches them to nodes *)

SpecifierLen(s) ==
    IF s.type = "ImportSpecifier"
    THEN IF s.imported = s.local
         THEN StrLen(s.local)
         ELSE StrLen(s.imported) + StrLen(" as ") + StrLen(s.local)
    ELSE StrLen("* as ") + StrLen(s.local)

ImportOpenLen(node) ==
    IF node.specifiers[1].type = "ImportSpecifier"
    THEN StrLen("import { ") ELSE StrLen("import ")

ImportCloseLen(node) ==
    (IF node.specifiers[1].type = "ImportSpecifier"
     THEN StrLen(" } from '") ELSE StrLen(" from '"))
    + StrLen(node.source) + StrLen("';")

RECURSIVE SpecifierStart(_, _, _)
\* offset of specifier i of an import declaration that starts at `start`
SpecifierStart(node, start, i) ==
    IF i = 1
    THEN start + ImportOpenLen(node)
    ELSE SpecifierStart(node, start, i - 1)
         + SpecifierLen(node.specifiers[i - 1]) + StrLen(", ")

\* s.range of specifier i
SpecifierRange(node, start, i) ==
    << SpecifierStart(node, start, i),
       SpecifierStart(node, start, i) + SpecifierLen(node.specifiers[i]) >>

SuperClassLen(node) ==
    IF node.superType = "MemberExpression"
    THEN StrLen(node.object) + StrLen(".") + StrLen(node.property)
    ELSE StrLen(node.property)

\* sc.range of `class X extends <superClass> {}`
SuperClassRange(node, start) ==
    << start + StrLen("class X extends "),
       start + StrLen("class X extends ") + SuperClassLen(node) >>

AnnotationLen(node) ==
    CASE node.annotation = "TSQualifiedName" ->
            StrLen(node.left) + StrLen(".") + StrLen(node.right)
      [] node.annotation = "Identifier" -> StrLen(node.right)
      [] OTHER -> 0

\* typeAnnotation.range of `<name>: <type>`
AnnotationRange(node, start) ==
    << start + StrLen(node.name) + StrLen(": "),
       start + StrLen(node.name) + StrLen(": ") + AnnotationLen(node) >>

NodeLen(node) ==
    CASE node.type = "ImportDeclaration" ->
            SpecifierStart(node, 0, Len(node.specifiers))
            + SpecifierLen(node.specifiers[Len(node.specifiers)])
            + ImportCloseLen(node)
      [] node.type = "ClassDeclaration" ->
            StrLen("class X extends ") + SuperClassLen(node) + StrLen(" {}")
      [] node.type = "Identifier" ->
            IF node.annotation = "none"
            THEN StrLen(node.name)
            ELSE StrLen(node.name) + StrLen(": ") + AnnotationLen(node)

RECURSIVE NodeStart(_, _)
\* offset of node i of a file; one line break between nodes
NodeStart(file, i) ==
    IF i = 1 THEN 0
    ELSE NodeStart(file, i - 1) + NodeLen(file[i - 1]) + 1

NodeEnd(file, i) == NodeStart(file, i) + NodeLen(file[i])

-----------------------------------------------------------------------------
(* ImportCache (../private/import-cache) *)

\* importCache.record(entry)
Record(cache, entry) == Append(cache, entry)

-----------------------------------------------------------------------------
(* ImportDeclaration: lines 92-120 *)

Undefined == [undefined |-> TRUE]

\* typeName(), lines 94-100
TypeName(s) ==
    CASE s.type = "ImportSpecifier"          -> s.imported
      [] s.type = "ImportDefaultSpecifier"   -> s.local
      [] s.type = "ImportNamespaceSpecifier" -> s.local

\* `${node.source.value}.${s.local.name}`, line 117
LocalName(source, local) == <<source, ".", local>>

\* the specifier's own range whatever its position
IsolationRangeOwn(node, start, i) == SpecifierRange(node, start, i)

\* the removal runs through the end of the declaration's line
IsolationRangeToLineEnd(node, start, i) ==
    << SpecifierRange(node, start, i)[1], start + NodeLen(node) + 1 >>

\* line 108
IsolationRange(node, start, i) ==
    IF i = Len(node.specifiers)
    THEN SpecifierRange(node, start, i)
    ELSE << SpecifierRange(node, start, i)[1], SpecifierRange(node, start, i + 1)[1] >>

\* a violation stored whatever the number of specifiers
ViolationAfterAnyLength(violation, node, ref, start, i) ==
    IF node.specifiers[i].local = "CoreConstruct"
    THEN [node |-> ref, range |-> IsolationRange(node, start, i)]
    ELSE violation

\* the first violation of a file kept
ViolationAfterFirstWins(violation, node, ref, start, i) ==
    IF /\ node.specifiers[i].local = "CoreConstruct"
       /\ Len(node.specifiers) > 1
       /\ violation = Undefined
    THEN [node |-> ref, range |-> IsolationRange(node, start, i)]
    ELSE violation

\* lines 102-111: the pending violation after specifier i has been looked at
ViolationAfter(violation, node, ref, start, i) ==
    IF node.specifiers[i].local = "CoreConstruct" /\ Len(node.specifiers) > 1
    THEN [node |-> ref, range |-> IsolationRange(node, start, i)]
    ELSE violation

\* the binding recorded without the name of its file
CacheEntryNoFileName(file, node, ref, i) ==
    [fileName   |-> Undefined,
     typeName   |-> TypeName(node.specifiers[i]),
     importNode |-> ref,
     localName  |-> LocalName(node.source, node.specifiers[i].local)]

\* lines 113-118
CacheEntry(file, node, ref, i) ==
    [fileName   |-> file,
     typeName   |-> TypeName(node.specifiers[i]),
     importNode |-> ref,
     localName  |-> LocalName(node.source, node.specifiers[i].local)]

\* one record per declaration instead of one per specifier
ForSpecifiersOnce(st, file, node, ref, start, i) ==
    [cache     |-> Record(st.cache, CacheEntry(file, node, ref, 1)),
     violation |-> st.violation]

RECURSIVE ForSpecifiers(_, _, _, _, _, _)
\* the loop of line 93, from specifier i on; st = [cache, violation]
ForSpecifiers(st, file, node, ref, start, i) ==
    IF i > Len(node.specifiers)
    THEN st
    ELSE ForSpecifiers(
            [cache     |-> Record(st.cache, CacheEntry(file, node, ref, i)),
             violation |-> ViolationAfter(st.violation, node, ref, start, i)],
            file, node, ref, start, i + 1)

-----------------------------------------------------------------------------
(* The fixers: lines 150-240.  context.report computes the fix when the    *)
(* violation is reported, from the cache as it is at that moment.          *)

\* the filter by file name left out
FileImportsUnfiltered(cache, file) == cache

\* importCache.imports.filter(x => x.fileName === context.getFilename()), lines 160, 187
FileImports(cache, file) == SelectSeq(cache, LAMBDA x : x.fileName = file)

\* imports.find(i => i.localName === x), line 188
FindImport(imports, x) ==
    IF \E i \in 1..Len(imports) : imports[i].localName = x
    THEN imports[CHOOSE i \in 1..Len(imports) :
                    /\ imports[i].localName = x
                    /\ \A j \in 1..(i - 1) : imports[j].localName # x]
    ELSE Undefined

\* an addImport that was never assigned
NoImport == ""

\* the peer-module binding looked at before the alias binding
DecisionPeerFirst(imports) ==
    LET coreConstruct       == FindImport(imports, LocalName(CoreModule, "Construct"))
        coreCoreConstruct   == FindImport(imports, LocalName(CoreModule, "CoreConstruct"))
        constructsConstruct == FindImport(imports, LocalName(ConstructsModule, "Construct"))
    IN  IF coreConstruct # Undefined
        THEN [replaceBy |-> "Construct", addImport |-> NoImport]
        ELSE IF constructsConstruct # Undefined
        THEN [replaceBy |-> "CoreConstruct",
              addImport |-> "import { Construct as CoreConstruct } from '@aws-cdk/core';"]
        ELSE IF coreCoreConstruct # Undefined
        THEN [replaceBy |-> "CoreConstruct", addImport |-> NoImport]
        ELSE [replaceBy |-> "Construct",
              addImport |-> "import { Construct } from '@aws-cdk/core';"]

\* lines 190-217
Decision(imports) ==
    LET coreConstruct       == FindImport(imports, LocalName(CoreModule, "Construct"))
        coreCoreConstruct   == FindImport(imports, LocalName(CoreModule, "CoreConstruct"))
        constructsConstruct == FindImport(imports, LocalName(ConstructsModule, "Construct"))
    IN  IF coreConstruct # Undefined
        THEN [replaceBy |-> "Construct", addImport |-> NoImport]
        ELSE IF coreCoreConstruct # Undefined
        THEN [replaceBy |-> "CoreConstruct", addImport |-> NoImport]
        ELSE IF constructsConstruct # Undefined
        THEN [replaceBy |-> "CoreConstruct",
              addImport |-> "import { Construct as CoreConstruct } from '@aws-cdk/core';"]
        ELSE [replaceBy |-> "Construct",
              addImport |-> "import { Construct } from '@aws-cdk/core';"]

\* the lines joined by '\n', lines 162-168 and 227-233
InsertedLines(importLine) ==
    << "", "",
       "// keep this import separate from other imports to reduce chance for merge conflicts with v2-main",
       "// eslint-disable-next-line no-duplicate-imports, import/order",
       importLine >>

ReplaceTextRange(range, text) == [op |-> "replaceTextRange", range |-> range, text |-> text]
RemoveRange(range)            == [op |-> "removeRange", range |-> range]
InsertTextAfter(node, lines)  == [op |-> "insertTextAfter", node |-> node, lines |-> lines]
\* reading .importNode of undefined
TypeError                     == [op |-> "TypeError"]

\* the fix callback of report(), lines 186-238
QualifierFix(cache, file, replaceRange) ==
    LET imports == FileImports(cache, file)
        d       == Decision(imports)
        fixes   == << ReplaceTextRange(replaceRange, d.replaceBy) >>
    IN  IF d.addImport # NoImport /\ imports # << >>
        THEN Append(fixes, InsertTextAfter(imports[Len(imports)].importNode,
                                           InsertedLines(d.addImport)))
        ELSE fixes

\* report(context, node, replaceRange), lines 182-240
Report(cache, file, ref, replaceRange) ==
    [rule |-> "qualifier", node |-> ref, fix |-> QualifierFix(cache, file, replaceRange)]

\* the import inserted after the declaration the alias is removed from
OrderFixAtOwnNode(violation, cache, file) ==
    << RemoveRange(violation.range),
       InsertTextAfter(violation.node,
           InsertedLines("import { Construct as CoreConstruct } from '@aws-cdk/core'")) >>

\* the fix callback of reportImportOrderViolations, lines 156-170
OrderFix(violation, cache, file) ==
    LET imports == FileImports(cache, file)
    IN  IF imports = << >>
        THEN << RemoveRange(violation.range), TypeError >>
        ELSE << RemoveRange(violation.range),
                InsertTextAfter(imports[Len(imports)].importNode,
                    InsertedLines("import { Construct as CoreConstruct } from '@aws-cdk/core'")) >>

\* reportImportOrderViolations(context), lines 150-173: the reports it makes
ReportImportOrderViolations(violation, cache, file) ==
    IF violation # Undefined
    THEN << [rule |-> "order", node |-> violation.node,
             fix |-> OrderFix(violation, cache, file)] >>
    ELSE << >>

-----------------------------------------------------------------------------
(* The listener of lines 17-53 *)

\* typeName(), lines 26-32
SeenTypeName(s) ==
    CASE s.type = "ImportSpecifier"          -> s.imported
      [] s.type = "ImportDefaultSpecifier"   -> s.local
      [] s.type = "ImportNamespaceSpecifier" -> s.local

\* the flag left as the previous file set it
KeepSeen == coreConstructSeen

\* line 21
ResetSeen == FALSE

\* lines 34-39
NoImportsAfter(st, ref) ==
    IF st.seen
    THEN Append(st.reports, [message |-> "heyhey", node |-> ref])
    ELSE st.reports

RECURSIVE ForSpecifiersSeen(_, _, _, _)
\* the loop of line 25, from specifier i on; st = [seen, reports]
ForSpecifiersSeen(st, node, ref, i) ==
    IF i > Len(node.specifiers)
    THEN st
    ELSE LET after == NoImportsAfter(st, ref) IN
         ForSpecifiersSeen(
            IF SeenTypeName(node.specifiers[i]) = "CoreConstruct"
            THEN [seen    |-> TRUE,
                  reports |-> IF Len(node.specifiers) > 1
                              THEN Append(after, [message |-> "hey", node |-> ref])
                              ELSE after]
            ELSE [seen |-> st.seen, reports |-> after],
            node, ref, i + 1)

-----------------------------------------------------------------------------
(* The listener: lines 78-148 *)

NoFile == [id |-> 0, core |-> FALSE]

\* no file left out
SkipNone(file) == FALSE

\* context.getFilename().includes('@aws-cdk/core'), line 80
SkipCore(file) == file.core

\* the node being visited
Ref == [file |-> fileName, pass |-> pass, index |-> Len(visited) + 1]
Start == NodeStart(Append(visited, [type |-> "none"]), Len(visited) + 1)

\* the nodes the traversal may hand over next
NextNodes ==
    IF fileName = NoFile THEN {}
    ELSE IF pass = 1
         THEN IF nEvents < MaxEvents THEN Nodes ELSE {}
         ELSE IF todo = << >> THEN {} ELSE {Head(todo)}

Advance(n) ==
    /\ visited' = Append(visited, n)
    /\ todo' = IF pass = 1 THEN todo ELSE Tail(todo)
    /\ nEvents' = IF pass = 1 THEN nEvents + 1 ELSE nEvents
    /\ UNCHANGED <<fileName, pass, nFiles>>

\* ImportDeclaration of the listener of lines 17-53: lines 24-51
ImportCoreLast(n) ==
    IF n.type = "ImportDeclaration"
    THEN LET st == ForSpecifiersSeen([seen |-> coreConstructSeen, reports |-> lastReports],
                                     n, Ref, 1)
         IN  /\ coreConstructSeen' = st.seen
             /\ lastReports' = st.reports
    ELSE UNCHANGED <<coreConstructSeen, lastReports>>

\* the slot left as the previous file set it
KeepViolation == importOrderViolation

\* line 87
ResetViolation == Undefined

\* create() of a file outside @aws-cdk/core, then its Program event: lines 78-88
Program ==
    /\ nEvents < MaxEvents
    /\ pass = 2 => todo = << >>
    /\ fileName' = [id |-> nFiles + 1, core |-> FALSE]
    /\ importOrderViolation' = ResetViolation
    /\ nFiles' = nFiles + 1
    /\ nEvents' = nEvents + 1
    /\ pass' = 1
    /\ visited' = << >>
    /\ todo' = << >>
    /\ reports' = << >>
    /\ coreConstructSeen' = ResetSeen
    /\ lastReports' = << >>
    /\ UNCHANGED importCache

\* create() of a file of @aws-cdk/core returns no listener: lines 79-82
ProgramCore ==
    /\ nEvents < MaxEvents
    /\ pass = 2 => todo = << >>
    /\ fileName' = [id |-> nFiles + 1, core |-> TRUE]
    /\ nFiles' = nFiles + 1
    /\ nEvents' = nEvents + 1
    /\ pass' = 1
    /\ visited' = << >>
    /\ todo' = << >>
    /\ reports' = << >>
    /\ coreConstructSeen' = ResetSeen
    /\ lastReports' = << >>
    /\ UNCHANGED <<importCache, importOrderViolation>>

\* any node of a file of @aws-cdk/core: only the listener of lines 17-53 listens
SkippedNode ==
    \E n \in NextNodes :
        /\ SkipCore(fileName)
        /\ ImportCoreLast(n)
        /\ Advance(n)
        /\ UNCHANGED <<importCache, importOrderViolation, reports>>

\* lines 92-120
ImportDeclaration ==
    \E n \in NextNodes :
        /\ ~SkipCore(fileName)
        /\ n.type = "ImportDeclaration"
        /\ LET st == ForSpecifiers([cache |-> importCache, violation |-> importOrderViolation],
                                   fileName, n, Ref, Start, 1)
           IN  /\ importCache' = st.cache
               /\ importOrderViolation' = st.violation
        /\ ImportCoreLast(n)
        /\ Advance(n)
        /\ UNCHANGED reports

\* line 127 (sc.range is always set by the parser)
IsQualifiedConstruct(n) == n.property = "Construct"

\* every member-qualified base class taken for a usage of the alias
IsQualifiedAliasAny(n) == TRUE

\* line 130
IsQualifiedAlias(n) == n.property = "CoreConstruct"

\* lines 123-134
ClassDeclaration ==
    \E n \in NextNodes :
        /\ ~SkipCore(fileName)
        /\ n.type = "ClassDeclaration"
        /\ reports' =
             IF n.superType = "MemberExpression"
             THEN reports
                  \o (IF IsQualifiedConstruct(n)
                      THEN << Report(importCache, fileName, Ref, SuperClassRange(n, Start)) >>
                      ELSE << >>)
                  \o (IF IsQualifiedAlias(n)
                      THEN ReportImportOrderViolations(importOrderViolation, importCache, fileName)
                      ELSE << >>)
             ELSE reports
        /\ Advance(n)
        /\ UNCHANGED <<importCache, importOrderViolation, coreConstructSeen, lastReports>>

\* the qualifying name left unchecked
IsQualifiedAnnotationAnyModule(n) ==
    n.annotation = "TSQualifiedName" /\ n.right = "Construct"

\* line 140
IsQualifiedAnnotation(n) ==
    n.annotation = "TSQualifiedName" /\ n.right = "Construct" /\ n.left # "constructs"

\* every identifier taken for a usage of the alias
IsAliasNameAlways(n) == TRUE

\* line 143
IsAliasName(n) == n.name = "CoreConstruct"

\* the slot cleared once its violation has been reported
IdentifierConsuming ==
    \E n \in NextNodes :
        /\ ~SkipCore(fileName)
        /\ n.type = "Identifier"
        /\ reports' =
             reports
             \o (IF IsQualifiedAnnotation(n)
                 THEN << Report(importCache, fileName, Ref, AnnotationRange(n, Start)) >>
                 ELSE << >>)
             \o (IF IsAliasName(n)
                 THEN ReportImportOrderViolations(importOrderViolation, importCache, fileName)
                 ELSE << >>)
        /\ importOrderViolation' =
             IF IsAliasName(n) THEN Undefined ELSE importOrderViolation
        /\ Advance(n)
        /\ UNCHANGED <<importCache, coreConstructSeen, lastReports>>

\* lines 137-146
Identifier ==
    \E n \in NextNodes :
        /\ ~SkipCore(fileName)
        /\ n.type = "Identifier"
        /\ reports' =
             reports
             \o (IF IsQualifiedAnnotation(n)
                 THEN << Report(importCache, fileName, Ref, AnnotationRange(n, Start)) >>
                 ELSE << >>)
             \o (IF IsAliasName(n)
                 THEN ReportImportOrderViolations(importOrderViolation, importCache, fileName)
                 ELSE << >>)
        /\ Advance(n)
        /\ UNCHANGED <<importCache, importOrderViolation, coreConstructSeen, lastReports>>

-----------------------------------------------------------------------------
(* The host applies the fixes of a traversal to the file's text and lints  *)
(* the result again, in the same run.                                      *)

RECURSIVE AllEdits(_, _)
\* the edits of reports k.. in report order
AllEdits(rs, k) ==
    IF k > Len(rs) THEN << >> ELSE rs[k].fix \o AllEdits(rs, k + 1)

Within(inner, outer) == outer[1] <= inner[1] /\ inner[2] <= outer[2]

\* the import declaration an inserted line parses to
ParseImport(line) ==
    CASE line = "import { Construct } from '@aws-cdk/core';" ->
            ImportNode(CoreModule, << Named("Construct", "Construct") >>)
      [] line = "import { Construct as CoreConstruct } from '@aws-cdk/core';" ->
            ImportNode(CoreModule, << Named("Construct", "CoreConstruct") >>)
      [] line = "import { Construct as CoreConstruct } from '@aws-cdk/core'" ->
            ImportNode(CoreModule, << Named("Construct", "CoreConstruct") >>)

RECURSIVE InsertedAfter(_, _, _, _)
\* the distinct lines inserted after node `ref`, in edit order (the same
\* insertion computed twice is applied once)
InsertedAfter(edits, ref, k, seen) ==
    IF k > Len(edits) THEN << >>
    ELSE IF /\ edits[k].op = "insertTextAfter"
            /\ edits[k].node = ref
            /\ edits[k].lines[5] \notin seen
         THEN << ParseImport(edits[k].lines[5]) >>
              \o InsertedAfter(edits, ref, k + 1, seen \cup {edits[k].lines[5]})
         ELSE InsertedAfter(edits, ref, k + 1, seen)

\* node i of `file` after the replace and remove edits that fall in its text
EditedNode(file, edits, i) ==
    LET n == file[i]
        s == NodeStart(file, i)
        replaces == { k \in 1..Len(edits) :
                        /\ edits[k].op = "replaceTextRange"
                        /\ Within(edits[k].range, <<s, s + NodeLen(n)>>) }
        text == edits[CHOOSE k \in replaces : TRUE].text
    IN  IF n.type = "ImportDeclaration"
        THEN LET kept == { j \in 1..Len(n.specifiers) :
                             ~ \E k \in 1..Len(edits) :
                                 /\ edits[k].op = "removeRange"
                                 /\ Within(SpecifierRange(n, s, j), edits[k].range) }
                 keptSeq == SelectSeq([j \in 1..Len(n.specifiers) |-> j],
                                      LAMBDA j : j \in kept)
             IN  << [n EXCEPT !.specifiers =
                        [j \in 1..Len(keptSeq) |-> n.specifiers[keptSeq[j]]]] >>
        ELSE IF replaces = {} THEN << n >>
        ELSE IF n.type = "ClassDeclaration"
        THEN << ClassNode("Identifier", "", text), IdentifierNode(text, "none", "", "") >>
        ELSE << IdentifierNode(n.name, "Identifier", "", text),
                IdentifierNode(text, "none", "", "") >>

RECURSIVE ApplyFrom(_, _, _, _)
ApplyFrom(file, file_ref, edits, i) ==
    IF i > Len(file) THEN << >>
    ELSE EditedNode(file, edits, i)
         \o InsertedAfter(edits, [file_ref EXCEPT !.index = i], 1, {})
         \o ApplyFrom(file, file_ref, edits, i + 1)

\* the file that results from applying every fix of the traversal
ApplyFixes(file, file_ref, rs) == ApplyFrom(file, file_ref, AllEdits(rs, 1), 1)

\* the fixed file is linted again: create() and Program for the same file name
Relint ==
    /\ fileName # NoFile
    /\ ~SkipCore(fileName)
    /\ pass = 1
    /\ reports # << >>
    /\ todo' = ApplyFixes(visited, [file |-> fileName, pass |-> 1, index |-> 0], reports)
    /\ pass' = 2
    /\ importOrderViolation' = ResetViolation
    /\ visited' = << >>
    /\ reports' = << >>
    /\ coreConstructSeen' = ResetSeen
    /\ lastReports' = << >>
    /\ UNCHANGED <<importCache, fileName, nFiles, nEvents>>

-----------------------------------------------------------------------------

Init ==
    /\ importCache = << >>
    /\ importOrderViolation = Undefined
    /\ fileName = NoFile
    /\ pass = 1
    /\ visited = << >>
    /\ todo = << >>
    /\ reports = << >>
    /\ nFiles = 0
    /\ nEvents = 0
    /\ coreConstructSeen = FALSE
    /\ lastReports = << >>

Next ==
    \/ Program
    \/ ProgramCore
    \/ SkippedNode
    \/ ImportDeclaration
    \/ ClassDeclaration
    \/ Identifier
    \/ Relint

Spec == Init /\ [][Next]_vars

-----------------------------------------------------------------------------
(* Properties *)

\* the node visited last, as reports name it
LastRef == [file |-> fileName, pass |-> pass, index |-> Len(visited)]

QualifierReports == { k \in 1..Len(reports) : reports[k].rule = "qualifier" }
OrderReports     == { k \in 1..Len(reports) : reports[k].rule = "order" }

\* the qualifier reports of the handler that ran last: the cache is still
\* the one their fixes were computed from
FreshQualifierReports == { k \in QualifierReports : reports[k].node = LastRef }

Inserts(r) == { k \in 1..Len(r.fix) : r.fix[k].op = "insertTextAfter" }

\* the current file has a binding under the composite key module.local
Bound(module, local) ==
    \E i \in 1..Len(importCache) :
        /\ importCache[i].fileName = fileName
        /\ importCache[i].localName = LocalName(module, local)

HasFileImport ==
    \E i \in 1..Len(importCache) : importCache[i].fileName = fileName

\* the first edit replaces by `text`; the fix inserts `line` after an import
\* when there is a line to add and an import to add it after, nothing otherwise
FixIs(r, text, line, anchored) ==
    /\ r.fix[1].op = "replaceTextRange"
    /\ r.fix[1].text = text
    /\ \A k \in Inserts(r) : r.fix[k].lines[5] = line
    /\ (Inserts(r) # {}) <=> (line # NoImport /\ anchored)
    /\ Len(r.fix) = 1 + Cardinality(Inserts(r))

\* C1: the replacement text and the import to add follow the decision table
\* on the current file's bindings, in the priority order core.Construct,
\* core.CoreConstruct, constructs.Construct, none; with both the alias binding
\* of the canonical module and the peer-module binding present, no import is
\* added and a binding of the canonical module is chosen.
C1_DecisionTable ==
    \A k \in FreshQualifierReports :
        LET r == reports[k] IN
        /\ Bound(CoreModule, "Construct") =>
              FixIs(r, "Construct", NoImport, HasFileImport)
        /\ ~Bound(CoreModule, "Construct") /\ Bound(CoreModule, "CoreConstruct") =>
              FixIs(r, "CoreConstruct", NoImport, HasFileImport)
        /\ /\ ~Bound(CoreModule, "Construct")
           /\ ~Bound(CoreModule, "CoreConstruct")
           /\ Bound(ConstructsModule, "Construct")
           => FixIs(r, "CoreConstruct",
                    "import { Construct as CoreConstruct } from '@aws-cdk/core';",
                    HasFileImport)
        /\ /\ ~Bound(CoreModule, "Construct")
           /\ ~Bound(CoreModule, "CoreConstruct")
           /\ ~Bound(ConstructsModule, "Construct")
           => FixIs(r, "Construct", "import { Construct } from '@aws-cdk/core';",
                    HasFileImport)
        /\ Bound(CoreModule, "CoreConstruct") /\ Bound(ConstructsModule, "Construct") =>
              /\ Inserts(r) = {}
              /\ ~Bound(CoreModule, "Construct") => r.fix[1].text = "CoreConstruct"

\* a qualifier violation fixed in a file that binds both core.CoreConstruct
\* and constructs.Construct: the alias is chosen, nothing is inserted
C1_Witness ==
    \E k \in FreshQualifierReports :
        /\ Bound(CoreModule, "CoreConstruct")
        /\ Bound(ConstructsModule, "Construct")
        /\ ~Bound(CoreModule, "Construct")
        /\ reports[k].fix = << ReplaceTextRange(reports[k].fix[1].range, "CoreConstruct") >>

\* the file as written binds module.local in an import declaration before node i
OwnBound(module, local, i) ==
    \E j \in 1..(i - 1) :
        /\ visited[j].type = "ImportDeclaration"
        /\ visited[j].source = module
        /\ \E q \in 1..Len(visited[j].specifiers) : visited[j].specifiers[q].local = local

OwnImport(i) == \E j \in 1..(i - 1) : visited[j].type = "ImportDeclaration"

\* C2: a binding recorded for another file never satisfies a lookup and is
\* never the insertion anchor: every fix is the one the decision table gives
\* on the import declarations of the file itself, and is anchored in that file.
C2_CrossFileIndependence ==
    \A k \in 1..Len(reports) :
        LET r == reports[k]
            i == r.node.index
        IN
        /\ \A e \in Inserts(r) : r.fix[e].node.file = fileName
        /\ (pass = 1 /\ r.rule = "qualifier") =>
             /\ \A e \in Inserts(r) :
                   /\ r.fix[e].node.pass = 1
                   /\ r.fix[e].node.index < i
                   /\ visited[r.fix[e].node.index].type = "ImportDeclaration"
             /\ IF OwnBound(CoreModule, "Construct", i)
                THEN FixIs(r, "Construct", NoImport, OwnImport(i))
                ELSE IF OwnBound(CoreModule, "CoreConstruct", i)
                THEN FixIs(r, "CoreConstruct", NoImport, OwnImport(i))
                ELSE IF OwnBound(ConstructsModule, "Construct", i)
                THEN FixIs(r, "CoreConstruct",
                           "import { Construct as CoreConstruct } from '@aws-cdk/core';",
                           OwnImport(i))
                ELSE FixIs(r, "Construct", "import { Construct } from '@aws-cdk/core';",
                           OwnImport(i))

\* the cache holds a core.Construct binding of an earlier file, and a
\* qualifier violation is fixed in a file that has no import of its own
C2_Witness ==
    /\ \E i \in 1..Len(importCache) :
          /\ importCache[i].fileName # fileName
          /\ importCache[i].localName = LocalName(CoreModule, "Construct")
    /\ ~SkipCore(fileName)
    /\ pass = 1
    /\ \E k \in QualifierReports :
          /\ ~OwnImport(reports[k].node.index)
          /\ reports[k].fix = << ReplaceTextRange(reports[k].fix[1].range, "Construct") >>

CombinedAliasImports ==
    { i \in 1..Len(visited) :
        /\ visited[i].type = "ImportDeclaration"
        /\ Len(visited[i].specifiers) > 1
        /\ \E q \in 1..Len(visited[i].specifiers) :
              visited[i].specifiers[q].local = "CoreConstruct" }

\* an identifier named CoreConstruct, or a class extending <x>.CoreConstruct
AliasUsages ==
    { j \in 1..Len(visited) :
        \/ visited[j].type = "Identifier" /\ visited[j].name = "CoreConstruct"
        \/ /\ visited[j].type = "ClassDeclaration"
           /\ visited[j].superType = "MemberExpression"
           /\ visited[j].property = "CoreConstruct" }

\* C3: while no usage of the alias has been visited after a combined import
\* of the alias, the traversal has reported no isolation violation.
C3_NoPrematureFix ==
    (\A i \in CombinedAliasImports : \A j \in AliasUsages : j < i)
        => OrderReports = {}

\* a combined import set the pending violation, other nodes followed, none a
\* usage of the alias: nothing was reported for the import
C3_Witness ==
    /\ ~SkipCore(fileName)
    /\ CombinedAliasImports # {}
    /\ importOrderViolation # Undefined
    /\ \A i \in CombinedAliasImports : \A j \in AliasUsages : j < i
    /\ \E i \in CombinedAliasImports : i < Len(visited)
    /\ OrderReports = {}

Chars(range) == range[1]..(range[2] - 1)

\* the pending violation was set by an import declaration of this traversal
PendingHere ==
    /\ importOrderViolation # Undefined
    /\ importOrderViolation.node.file = fileName
    /\ importOrderViolation.node.pass = pass
    /\ importOrderViolation.node.index <= Len(visited)

PendingImport == visited[importOrderViolation.node.index]
PendingStart  == NodeStart(visited, importOrderViolation.node.index)
AliasIndex ==
    CHOOSE q \in 1..Len(PendingImport.specifiers) :
        PendingImport.specifiers[q].local = "CoreConstruct"

SpecifierChars(q) == Chars(SpecifierRange(PendingImport, PendingStart, q))
\* the text between specifier q and specifier q + 1
SeparatorChars(q) ==
    SpecifierRange(PendingImport, PendingStart, q)[2]
        .. (SpecifierRange(PendingImport, PendingStart, q + 1)[1] - 1)

\* C5 as stated: the delete range is the alias and its trailing separator, or,
\* for the last specifier, the leading separator and the alias.
C5_AliasAndOneSeparator ==
    PendingHere =>
        Chars(importOrderViolation.range) =
            SpecifierChars(AliasIndex)
            \cup (IF AliasIndex < Len(PendingImport.specifiers)
                  THEN SeparatorChars(AliasIndex)
                  ELSE SeparatorChars(AliasIndex - 1))

\* C5: the delete range is the alias and the text up to the next specifier
\* when the alias is not the last specifier, the alias alone (no separator)
\* when it is the last; it holds no character of another specifier.
C5_IsolationScoping ==
    PendingHere =>
        /\ Chars(importOrderViolation.range) =
              SpecifierChars(AliasIndex)
              \cup (IF AliasIndex < Len(PendingImport.specifiers)
                    THEN SeparatorChars(AliasIndex)
                    ELSE {})
        /\ \A q \in 1..Len(PendingImport.specifiers) :
              q # AliasIndex =>
                 Chars(importOrderViolation.range) \cap SpecifierChars(q) = {}

\* pending for `import { Resource, Construct as CoreConstruct }`: the range is
\* the alias specifier's own, the separator before it stays
C5_Witness ==
    /\ PendingHere
    /\ Len(PendingImport.specifiers) = 2
    /\ AliasIndex = 2
    /\ importOrderViolation.range = SpecifierRange(PendingImport, PendingStart, 2)
    /\ SeparatorChars(1) # {}
    /\ SeparatorChars(1) \cap Chars(importOrderViolation.range) = {}

\* C6: an isolation violation reported in a file names an import declaration
\* of the current traversal of that file and a range inside that declaration;
\* a slot set in an earlier file does not survive the Program event.
C6_PendingResetPerFile ==
    /\ \A k \in OrderReports :
          /\ reports[k].node.file = fileName
          /\ reports[k].node.pass = pass
          /\ reports[k].node.index \in CombinedAliasImports
          /\ Within(reports[k].fix[1].range,
                    << NodeStart(visited, reports[k].node.index),
                       NodeEnd(visited, reports[k].node.index) >>)
    /\ (fileName # NoFile /\ ~SkipCore(fileName) /\ importOrderViolation # Undefined)
          => PendingHere

\* an earlier file had a combined import of the alias; the current file uses
\* the alias without such an import and nothing is reported
C6_Witness ==
    /\ \E i, j \in 1..Len(importCache) :
          /\ i # j
          /\ importCache[i].fileName # fileName
          /\ importCache[i].localName = LocalName(CoreModule, "CoreConstruct")
          /\ importCache[j].importNode = importCache[i].importNode
    /\ ~SkipCore(fileName)
    /\ AliasUsages # {}
    /\ CombinedAliasImports = {}
    /\ importOrderViolation = Undefined
    /\ OrderReports = {}

\* C7: a qualifier violation in a file with no recorded import declaration is
\* reported with no fix edit at all.
C7_FailByOmission ==
    \A k \in FreshQualifierReports : ~HasFileImport => reports[k].fix = << >>

\* C8: a class extending <X>.Construct is reported if and only if X is not
\* `constructs`.
C8_ClassQualifier ==
    ( /\ visited # << >>
      /\ ~SkipCore(fileName)
      /\ visited[Len(visited)].type = "ClassDeclaration"
      /\ visited[Len(visited)].superType = "MemberExpression"
      /\ visited[Len(visited)].property = "Construct" )
    => ( (\E k \in QualifierReports : reports[k].node = LastRef)
         <=> visited[Len(visited)].object # "constructs" )

\* the import bindings of local name `name` in a file
Bindings(file, name) ==
    { <<i, q>> \in (1..Len(file)) \X (1..3) :
        /\ file[i].type = "ImportDeclaration"
        /\ q <= Len(file[i].specifiers)
        /\ file[i].specifiers[q].local = name }

CombinedAlias(file) ==
    \E i \in 1..Len(file) :
        /\ file[i].type = "ImportDeclaration"
        /\ Len(file[i].specifiers) > 1
        /\ \E q \in 1..Len(file[i].specifiers) :
              file[i].specifiers[q].local = "CoreConstruct"

\* C9: the file that results from applying the fixes of a traversal binds
\* neither `Construct` nor `CoreConstruct` twice and has no import line that
\* binds the alias alongside other specifiers (for a file that bound neither
\* name twice and whose combined alias imports were all reported).
C9_NoConflictingResult ==
    ( /\ pass = 1
      /\ fileName # NoFile
      /\ ~SkipCore(fileName)
      /\ reports # << >>
      /\ Cardinality(Bindings(visited, "Construct")) <= 1
      /\ Cardinality(Bindings(visited, "CoreConstruct")) <= 1
      /\ \A i \in CombinedAliasImports :
            \E k \in OrderReports : reports[k].node.index = i )
    => LET fixed == ApplyFixes(visited, [file |-> fileName, pass |-> 1, index |-> 0],
                               reports)
       IN  /\ Cardinality(Bindings(fixed, "Construct")) <= 1
           /\ Cardinality(Bindings(fixed, "CoreConstruct")) <= 1
           /\ ~CombinedAlias(fixed)

\* a step of the listener visits an import declaration
ImportVisited ==
    /\ ~SkipCore(fileName)
    /\ Len(visited') = Len(visited) + 1
    /\ visited'[Len(visited')].type = "ImportDeclaration"

AppendOnlyStep ==
    /\ Len(importCache') >= Len(importCache)
    /\ SubSeq(importCache', 1, Len(importCache)) = importCache
    /\ IF ImportVisited
       THEN LET n == visited'[Len(visited')] IN
            /\ Len(importCache') = Len(importCache) + Len(n.specifiers)
            /\ \A q \in 1..Len(n.specifiers) :
                  importCache'[Len(importCache) + q] =
                      [fileName   |-> fileName,
                       typeName   |-> IF n.specifiers[q].type = "ImportSpecifier"
                                      THEN n.specifiers[q].imported
                                      ELSE n.specifiers[q].local,
                       importNode |-> [file |-> fileName, pass |-> pass,
                                       index |-> Len(visited')],
                       localName  |-> <<n.source, ".", n.specifiers[q].local>>]
       ELSE importCache' = importCache

\* C10: every step keeps the bindings already recorded, in order; a visited
\* import declaration appends one binding per specifier and no other step
\* changes the cache.
C10_CacheAppendOnly == [][AppendOnlyStep]_vars

\* bindings of a three-specifier import of an earlier file are still in the
\* cache after a begin-file and a fix in the next file
C10_Witness ==
    /\ Len(importCache) >= 3
    /\ importCache[1].importNode = importCache[3].importNode
    /\ importCache[1].fileName # fileName
    /\ ~SkipCore(fileName)
    /\ reports # << >>

\* the usages of the alias visited after a combined import of the alias
UsagesAfterImport ==
    { j \in AliasUsages : \E i \in CombinedAliasImports : i < j }

\* C11: a usage of the alias visited before the combined import never
\* triggers an isolation violation: every reported violation names an import
\* declaration that precedes a usage, and there is one report per usage that
\* follows a combined import, none for the usages that precede it.
C11_ForwardOnly ==
    (fileName # NoFile /\ ~SkipCore(fileName)) =>
        /\ \A k \in OrderReports :
              \E j \in AliasUsages : reports[k].node.index < j
        /\ Cardinality(OrderReports) = Cardinality(UsagesAfterImport)

\* the alias is used, then bound by a combined import, and not used again:
\* the slot is set and nothing has been reported
C11_Witness ==
    /\ ~SkipCore(fileName)
    /\ \E j \in AliasUsages : \E i \in CombinedAliasImports : j < i
    /\ UsagesAfterImport = {}
    /\ importOrderViolation # Undefined
    /\ OrderReports = {}

\* the anchor of an insertion is an import declaration of this traversal
AnchorHere(node) ==
    /\ node.file = fileName
    /\ node.pass = pass
    /\ node.index \in 1..Len(visited)
    /\ visited[node.index].type = "ImportDeclaration"

\* the offset insertTextAfter(node, ...) inserts at
AnchorOffset(node) == NodeEnd(visited, node.index)

\* C12: the replace range of every qualifier fix of a file is disjoint from
\* the delete range of every isolation fix of that file, and the offset a
\* fix inserts at (the end of the last recorded import declaration) is not
\* inside the range the same fix replaces or deletes.
C12_NonOverlappingEdits ==
    /\ \A q \in QualifierReports : \A o \in OrderReports :
          Chars(reports[q].fix[1].range) \cap Chars(reports[o].fix[1].range) = {}
    /\ \A k \in 1..Len(reports) :
          /\ reports[k].fix[1].range[1] < reports[k].fix[1].range[2]
          /\ \A e \in Inserts(reports[k]) :
                /\ AnchorHere(reports[k].fix[e].node)
                /\ \/ AnchorOffset(reports[k].fix[e].node) <= reports[k].fix[1].range[1]
                   \/ AnchorOffset(reports[k].fix[e].node) >= reports[k].fix[1].range[2]

\* a file with a qualifier fix and an isolation fix, both inserting an import
C12_Witness ==
    /\ \E q \in QualifierReports : Inserts(reports[q]) # {}
    /\ \E o \in OrderReports : Inserts(reports[o]) # {}

\* the range the claim gives for the alias specifier of the pending import
StoredRange ==
    IF AliasIndex = Len(PendingImport.specifiers)
    THEN << SpecifierStart(PendingImport, PendingStart, AliasIndex),
            SpecifierStart(PendingImport, PendingStart, AliasIndex)
            + SpecifierLen(PendingImport.specifiers[AliasIndex]) >>
    ELSE << SpecifierStart(PendingImport, PendingStart, AliasIndex),
            SpecifierStart(PendingImport, PendingStart, AliasIndex + 1) >>

\* C13: a violation is stored exactly when an import declaration with more
\* than one specifier binding the local name CoreConstruct has been visited;
\* its range is the alias specifier's own range when that specifier is the
\* last of the list, otherwise it runs from the specifier's start to the
\* start of the next specifier. A declaration with one specifier stores none.
C13_StoredRange ==
    (fileName # NoFile /\ ~SkipCore(fileName)) =>
        /\ (importOrderViolation # Undefined) <=> (CombinedAliasImports # {})
        /\ importOrderViolation # Undefined =>
              /\ PendingHere
              /\ importOrderViolation.node.index \in CombinedAliasImports
              /\ importOrderViolation.range = StoredRange

\* a violation stored for the middle specifier of three, left alone by the
\* single-specifier import of the alias visited next
C13_Witness ==
    /\ PendingHere
    /\ Len(PendingImport.specifiers) = 3
    /\ AliasIndex = 2
    /\ importOrderViolation.range[2] = SpecifierStart(PendingImport, PendingStart, 3)
    /\ Len(visited) > importOrderViolation.node.index
    /\ visited[Len(visited)].type = "ImportDeclaration"
    /\ Len(visited[Len(visited)].specifiers) = 1
    /\ visited[Len(visited)].specifiers[1].local = "CoreConstruct"

\* the combined import of the alias visited last
MostRecentImport ==
    CHOOSE i \in CombinedAliasImports : \A j \in CombinedAliasImports : j <= i

\* the edit range of the alias specifier of visited[i]
AliasRangeOf(i) ==
    LET node == visited[i]
        q    == CHOOSE q \in 1..Len(node.specifiers) :
                    node.specifiers[q].local = "CoreConstruct"
        from == SpecifierStart(node, NodeStart(visited, i), q)
    IN  IF q = Len(node.specifiers)
        THEN << from, from + SpecifierLen(node.specifiers[q]) >>
        ELSE << from, SpecifierStart(node, NodeStart(visited, i), q + 1) >>

\* C14: the slot holds at most one violation, that of the combined import of
\* the alias visited last; the violation reported at a usage carries the
\* declaration node and the edit range of that import.
C14_MostRecentWins ==
    (fileName # NoFile /\ ~SkipCore(fileName) /\ CombinedAliasImports # {}) =>
        /\ importOrderViolation =
              [node  |-> [file |-> fileName, pass |-> pass, index |-> MostRecentImport],
               range |-> AliasRangeOf(MostRecentImport)]
        /\ Len(visited) \in AliasUsages =>
              /\ reports # << >>
              /\ reports[Len(reports)].rule = "order"
              /\ reports[Len(reports)].node = importOrderViolation.node
              /\ reports[Len(reports)].fix[1] = RemoveRange(AliasRangeOf(MostRecentImport))

\* two combined imports of the alias with different edit ranges, then a usage
C14_Witness ==
    /\ ~SkipCore(fileName)
    /\ Len(visited) \in AliasUsages
    /\ \E i \in CombinedAliasImports :
          /\ i < MostRecentImport
          /\ AliasRangeOf(i) # AliasRangeOf(MostRecentImport)
    /\ reports[Len(reports)].node.index = MostRecentImport

\* the reports of the violation of the combined import visited last
ReportsOfMostRecent ==
    { k \in OrderReports : reports[k].node.index = MostRecentImport }

\* the usages of the alias visited after that import
UsagesSinceMostRecent == { j \in AliasUsages : j > MostRecentImport }

\* C15: reporting the pending violation leaves the slot as it was: the k
\* usages of the alias visited after the last combined import produce k
\* reports, each deleting the range the slot still holds.
C15_FlushKeepsSlot ==
    (fileName # NoFile /\ ~SkipCore(fileName) /\ CombinedAliasImports # {}) =>
        /\ importOrderViolation # Undefined
        /\ Cardinality(ReportsOfMostRecent) = Cardinality(UsagesSinceMostRecent)
        /\ \A k \in ReportsOfMostRecent :
              reports[k].fix[1] = RemoveRange(importOrderViolation.range)

\* two usages after the combined import, two reports of the same range
C15_Witness ==
    /\ ~SkipCore(fileName)
    /\ CombinedAliasImports # {}
    /\ Cardinality(UsagesSinceMostRecent) = 2
    /\ \E k1, k2 \in ReportsOfMostRecent :
          /\ k1 # k2
          /\ reports[k1].fix[1].range = reports[k2].fix[1].range
    /\ importOrderViolation # Undefined

\* the cache entry of the current file appended last
LastFileEntry ==
    importCache[CHOOSE i \in 1..Len(importCache) :
                    /\ importCache[i].fileName = fileName
                    /\ \A j \in (i + 1)..Len(importCache) :
                          importCache[j].fileName # fileName]

\* the reports of the handler that ran last
FreshReports ==
    FreshQualifierReports
    \cup (IF Len(visited) \in AliasUsages /\ reports # << >>
               /\ reports[Len(reports)].rule = "order"
          THEN {Len(reports)} ELSE {})

\* C16: every import a fix inserts, of a qualifier fix or of an isolation
\* fix, is anchored at the declaration node of the cache entry of the current
\* file appended last when the fix is computed; two fixes computed at the
\* same point share that anchor, which is a declaration of the file and not
\* an import another fix inserts.
C16_SameAnchor ==
    (fileName # NoFile /\ ~SkipCore(fileName)) =>
        \A k \in FreshReports : \A e \in Inserts(reports[k]) :
            /\ HasFileImport
            /\ reports[k].fix[e].node = LastFileEntry.importNode
            /\ AnchorHere(reports[k].fix[e].node)

\* an identifier that triggers both fixes after a combined import of the alias
\* and a later import: both insert after the later import
C16_Witness ==
    /\ ~SkipCore(fileName)
    /\ Len(visited) \in AliasUsages
    /\ \E q \in FreshQualifierReports : \E o \in FreshReports \cap OrderReports :
          /\ Inserts(reports[q]) # {}
          /\ Inserts(reports[o]) # {}
          /\ \A e \in Inserts(reports[q]) : \A f \in Inserts(reports[o]) :
                /\ reports[q].fix[e].node = reports[o].fix[f].node
                /\ reports[o].fix[f].node # reports[o].node

\* the qualifier reports made for visited[i]
QualifierReportsAt(i) ==
    { k \in QualifierReports : reports[k].node.index = i }

\* visited[i] is an identifier annotated <left>.Construct
AnnotatedConstruct(i) ==
    /\ visited[i].type = "Identifier"
    /\ visited[i].annotation = "TSQualifiedName"
    /\ visited[i].right = "Construct"

\* C17: an identifier annotated X.Construct gets a qualifier violation over
\* the annotation's range if and only if X is not constructs; an identifier
\* annotated constructs.Construct, annotated with an unqualified or another
\* type, or not annotated, gets none.
C17_IdentifierQualifier ==
    (fileName # NoFile /\ ~SkipCore(fileName)) =>
        \A i \in 1..Len(visited) :
            visited[i].type = "Identifier" =>
                /\ (QualifierReportsAt(i) # {})
                      <=> (AnnotatedConstruct(i) /\ visited[i].left # "constructs")
                /\ Cardinality(QualifierReportsAt(i)) <= 1
                /\ \A k \in QualifierReportsAt(i) :
                      /\ reports[k].fix[1].op = "replaceTextRange"
                      /\ reports[k].fix[1].range =
                            << NodeStart(visited, i) + StrLen(visited[i].name) + StrLen(": "),
                               NodeEnd(visited, i) >>

\* an identifier annotated cdk.Construct, reported, and one annotated
\* constructs.Construct, not reported
C17_Witness ==
    /\ ~SkipCore(fileName)
    /\ \E i, j \in 1..Len(visited) :
          /\ AnnotatedConstruct(i) /\ visited[i].left = "cdk"
          /\ QualifierReportsAt(i) # {}
          /\ AnnotatedConstruct(j) /\ visited[j].left = "constructs"
          /\ QualifierReportsAt(j) = {}

\* the name an import specifier resolves to
ResolvedName(s) == IF s.type = "ImportSpecifier" THEN s.imported ELSE s.local

\* a specifier resolving to CoreConstruct precedes specifier q of visited[a]
SeenBefore(a, q) ==
    \E b \in 1..a :
        /\ visited[b].type = "ImportDeclaration"
        /\ \E p \in 1..Len(visited[b].specifiers) :
              /\ b < a \/ p < q
              /\ ResolvedName(visited[b].specifiers[p]) = "CoreConstruct"

\* the `no imports after importing CoreConstruct` reports made for visited[a]
NoImportsAfterReports(a) ==
    { k \in 1..Len(lastReports) :
        /\ lastReports[k].message = "heyhey"
        /\ lastReports[k].node = [file |-> fileName, pass |-> pass, index |-> a] }

\* C18: the listener of lines 17-53 reports `no imports after importing
\* CoreConstruct` for an import specifier if and only if a specifier resolving
\* to CoreConstruct was processed before it in the same traversal of the same
\* file: the flag is reset at Program, so nothing carries over from the file
\* visited before.
C18_NoImportsAfterCoreConstruct ==
    /\ \A a \in 1..Len(visited) :
          visited[a].type = "ImportDeclaration" =>
              Cardinality(NoImportsAfterReports(a))
              = Cardinality({ q \in 1..Len(visited[a].specifiers) : SeenBefore(a, q) })
    /\ \A k \in 1..Len(lastReports) :
          lastReports[k].message = "heyhey" =>
              \E a \in 1..Len(visited) : k \in NoImportsAfterReports(a)
    /\ coreConstructSeen <=>
          \E b \in 1..Len(visited) :
              /\ visited[b].type = "ImportDeclaration"
              /\ \E p \in 1..Len(visited[b].specifiers) :
                    ResolvedName(visited[b].specifiers[p]) = "CoreConstruct"

\* the file visited before imported CoreConstruct; in this file the first
\* specifier, CoreConstruct, is not reported and the one after it is
C18_Witness ==
    /\ \E i \in 1..Len(importCache) :
          /\ importCache[i].fileName # fileName
          /\ importCache[i].typeName = "CoreConstruct"
    /\ Len(visited) = 1
    /\ visited[1].type = "ImportDeclaration"
    /\ ResolvedName(visited[1].specifiers[1]) = "CoreConstruct"
    /\ Cardinality(NoImportsAfterReports(1)) = 1
    /\ coreConstructSeen

\* the cache entries recorded for the current file
FileSlice == { i \in 1..Len(importCache) : importCache[i].fileName = fileName }

\* C19: whenever the slot is set while a file is being processed, the cache
\* holds at least one binding recorded for that file, so the isolation fix,
\* which reads the import node of the last binding of the file without a
\* guard, always finds one: no isolation fix fails on an undefined import.
C19_AnchorDefined ==
    (fileName # NoFile /\ ~SkipCore(fileName)) =>
        /\ importOrderViolation # Undefined => FileSlice # {}
        /\ \A k \in OrderReports :
              /\ Len(reports[k].fix) = 2
              /\ reports[k].fix[2].op = "insertTextAfter"
              /\ \E i \in FileSlice :
                    importCache[i].importNode = reports[k].fix[2].node

\* the violation flushed in a file whose only import is the combined one
C19_Witness ==
    /\ ~SkipCore(fileName)
    /\ PendingHere
    /\ { i \in 1..Len(visited) : visited[i].type = "ImportDeclaration" }
          = {importOrderViolation.node.index}
    /\ Len(visited) \in AliasUsages
    /\ \E k \in OrderReports : reports[k].fix[2].node = importOrderViolation.node

\* a step taken in, or entering, a file of @aws-cdk/core
CoreFileStep ==
    fileName'.core =>
        /\ importCache' = importCache
        /\ importOrderViolation' = importOrderViolation
        /\ reports' = << >>

\* C20: a file whose name contains @aws-cdk/core is skipped entirely: its
\* traversal appends nothing to the import cache, leaves the pending slot as
\* it was and reports no qualifier or isolation violation, whatever it holds.
C20_CoreFileSkipped == [][CoreFileStep]_vars

\* a usage of the alias visited in a file of @aws-cdk/core while the slot
\* still holds the violation of the file before: nothing reported
C20_Witness ==
    /\ fileName.core
    /\ importOrderViolation # Undefined
    /\ Len(visited) \in AliasUsages
    /\ reports = << >>
    /\ \A i \in 1..Len(importCache) : importCache[i].fileName # fileName

====
